---- MODULE Spec2Model ----
(***************************************************************************)
(* A model of comic_git's site builder, src/scripts/build_site.py.         *)
(*                                                                         *)
(* Representation.                                                         *)
(*   - A Python dict is a function whose domain is the set of its keys;    *)
(*     the empty dict is the function with the empty domain.               *)
(*   - A text that the code takes apart (a delimited option value, a       *)
(*     resize specification) is a sequence of one-character strings; a     *)
(*     label or a name that the code only compares is a string.            *)
(*   - A path is the sequence of its components.                           *)
(*   - A page directory name is a number: its rank among the directory     *)
(*     names in string order, which is all that sorted() uses of it.       *)
(*   - A post date is written in the date format "%B" (a month name), so   *)
(*     that the text order of two dates is not their calendar order.       *)
(***************************************************************************)
EXTENDS Integers, Sequences, FiniteSets, TLC

VARIABLES
    \* ---- get_page_info_list (the scan of one site's page directories)
    comic_dirs,             \* page directory name -> [has_info, info, files, image]
    publish_all_comics,     \* command line flag -p
    delete_scheduled_posts, \* command line flag -d
    auto_detect,            \* option "Auto-detect comic images"
    page_hook,              \* what the theme's extra_page_info_processing does
    local_time,             \* datetime.now(tz), as a month number
    todo,                   \* directories glob() returned, not yet visited
    page_info_list,         \* the list being built, then sorted
    scheduled_post_count,
    scan_pc,                \* "loop" | "done" | "error"
    scan_error,             \* the exception that ended the scan, or "none"
    page_hook_log,          \* per hook call: own record, hook result, record used
    visited,                \* directory name -> its content when the loop read it
    \* ---- build_comic_data_dicts (the assembly of one site's records)
    comic_folder,           \* path of the site: <<>> for the main comic
    dict_hook,              \* what the theme's extra_comic_dict_processing does
    comic_data_dicts,       \* the list being built
    asm_pc,                 \* "idle" | "loop" | "done" | "error"
    nav_ids,                \* what get_ids returned, per page assembled
    dict_hook_log,          \* per hook call: own record, hook result, record used
    \* ---- main and build_and_publish_comic_pages
    main_pc,                \* the step main() takes next, or "done" | "aborted"
    main_error,             \* the exception that aborted main(), or "none"
    content,                \* site name -> the page directories of the site
    comic_info,             \* the main comic's settings (comic_info.ini)
    extra_files,            \* extra comic name -> its own comic_info.ini
    site_info,              \* the settings of the site being built
    extras_done,            \* extra comics the loop of main() has taken up
    extra_info_log,         \* the calls of get_extra_comic_info so far
    global_values,          \* the values shared by the pages of the site
    thumbnails,             \* thumbnail path -> the size of the image saved there
    tag_index,              \* the dict `tags` of the last write_tagged_pages
    output,                 \* output tree: path -> [site, template] that wrote it
    trace                   \* the stages run so far: <<site, stage>>

scan_vars == <<comic_dirs, publish_all_comics, delete_scheduled_posts, auto_detect,
               page_hook, local_time, todo, page_info_list, scheduled_post_count,
               scan_pc, scan_error, page_hook_log, visited>>

asm_vars == <<comic_folder, dict_hook, comic_data_dicts, asm_pc, nav_ids, dict_hook_log>>

main_vars == <<main_pc, main_error, content, comic_info, extra_files, site_info,
               extras_done, extra_info_log, global_values, thumbnails, tag_index,
               output, trace>>

\* main_vars but the trace
main_state == <<main_pc, main_error, content, comic_info, extra_files, site_info,
                extras_done, extra_info_log, global_values, thumbnails, tag_index,
                output>>

main_state_but_pc == <<main_error, content, comic_info, extra_files, site_info,
                       extras_done, extra_info_log, global_values, thumbnails,
                       tag_index, output>>

\* What the scan leaves alone once it has returned.
scan_rest == <<publish_all_comics, delete_scheduled_posts, auto_detect, page_hook,
               local_time, todo, page_info_list, scheduled_post_count, scan_pc,
               scan_error, page_hook_log, visited>>

\* The settings and the files of the run.
run_inputs == <<content, comic_info, extra_files>>

vars == <<scan_vars, asm_vars, main_vars>>

-----------------------------------------------------------------------------
\* Bounds of the model.

MaxPages == 3       \* page directories of a site
MaxExtras == 2      \* extra comics of the main comic
MinSide == 10       \* pixels: the shortest side of an image under resize
MaxSide == 16       \* pixels: the longest, but for the default image

-----------------------------------------------------------------------------
\* Python values.

None == [some |-> FALSE, val |-> <<>>]

Some(v) == [some |-> TRUE, val |-> v]

EmptyDict == <<>>

\* dict.get(k, default)
Get(d, k, default) == IF k \in DOMAIN d THEN d[k] ELSE default

\* d[k] = v
Put(d, k, v) == (k :> v) @@ d

\* d.update(e)
Update(d, e) == e @@ d

\* Truth value of a hook's return value: None and the empty dict are false.
Truthy(r) == r.some /\ DOMAIN r.val # {}

\* Truth value of a str or of None (None is written <<>> where a str may be).
NonEmptyStr(s) == <<>> # s /\ s # ""

Range(s) == {s[i] : i \in DOMAIN s}

Max(a, b) == IF a >= b THEN a ELSE b

Min(a, b) == IF a <= b THEN a ELSE b

-----------------------------------------------------------------------------
\* Dates: strptime with the date format "%B".

MonthNames == <<"January", "February", "March">>

\* time.strptime(text, "%B").tm_mon; 0 stands for the ValueError of a text
\* that is no month name.
strptime(text) ==
    IF \E m \in DOMAIN MonthNames : MonthNames[m] = text
    THEN CHOOSE m \in DOMAIN MonthNames : MonthNames[m] = text
    ELSE 0

\* The string order (str.__lt__) of the month names: F < J < M.
TextRank(text) ==
    CASE text = "February" -> 1
      [] text = "January" -> 2
      [] text = "March" -> 3
      [] OTHER -> 0

-----------------------------------------------------------------------------
\* utils.str_to_list: a delimited text to the list of its trimmed labels.

Delimiters == {",", ";"}

RECURSIVE Join(_)
Join(chars) == IF chars = <<>> THEN "" ELSE Head(chars) \o Join(Tail(chars))

RECURSIVE Strip(_)
Strip(chars) ==
    IF chars = <<>> THEN <<>>
    ELSE IF Head(chars) = " " THEN Strip(Tail(chars))
    ELSE IF chars[Len(chars)] = " " THEN Strip(SubSeq(chars, 1, Len(chars) - 1))
    ELSE chars

\* The items between separators, left to right; `cur` is the item being read.
RECURSIVE SplitOn(_, _, _)
SplitOn(chars, seps, cur) ==
    IF chars = <<>> THEN <<cur>>
    ELSE IF Head(chars) \in seps
         THEN <<cur>> \o SplitOn(Tail(chars), seps, <<>>)
         ELSE SplitOn(Tail(chars), seps, Append(cur, Head(chars)))

SplitItems(chars, cur) == SplitOn(chars, Delimiters, cur)

str_to_list(chars) ==
    LET items == SplitItems(chars, <<>>)
        kept  == SelectSeq([i \in DOMAIN items |-> Strip(items[i])],
                           LAMBDA it : it # <<>>)
    IN  [i \in DOMAIN kept |-> Join(kept[i])]

-----------------------------------------------------------------------------
\* File names: <<stem, extension>>.

ImageExtensions ==
    {"jpg", "jpeg", "png", "tif", "tiff", "gif", "bmp", "webp", "webv", "svg", "eps"}

ThumbnailFile == <<"thumbnail", "jpg">>

\* An auto-detection that does not set thumbnail.jpg apart.
image_files_with_thumbnail(files) ==
    {f \in files : f[2] \in ImageExtensions}

\* The files os.listdir yields that the auto-detection keeps.
image_files(files) ==
    {f \in files : f # ThumbnailFile /\ f[2] \in ImageExtensions}

-----------------------------------------------------------------------------
\* Settings (RawConfigParser): section name -> (option name -> value).
\* The value of an option that holds a list or a path is a text; the others
\* are strings or Booleans. The order of the options of a section is not kept.

has_section(info, section) == section \in DOMAIN info

has_option(info, section, option) ==
    section \in DOMAIN info /\ option \in DOMAIN info[section]

\* get_option, lines 86-100
get_option(info, section, option, default) ==
    IF has_option(info, section, option) THEN info[section][option] ELSE default

\* utils.get_comic_url gives BASE_DIRECTORY, the path of the repository in its URL.
BASE_DIRECTORY == "repo"

\* web_path, lines 37-40: a text that starts with "/" gets the base directory.
web_path(rel_path) ==
    IF rel_path # <<>> /\ Head(rel_path) = "/"
    THEN <<BASE_DIRECTORY>> \o rel_path
    ELSE rel_path

\* get_pages_list, lines 110-114
get_pages_list(info) ==
    IF has_section(info, "Pages")
    THEN {[template_name |-> o, title |-> web_path(info["Pages"][o])] :
              o \in DOMAIN info["Pages"]}
    ELSE {}

\* get_links_list, lines 103-107; the section must exist.
get_links_list(info) ==
    {[name |-> o, url |-> web_path(info["Links Bar"][o])] :
        o \in DOMAIN info["Links Bar"]}

\* get_extra_comics_list, lines 117-120
get_extra_comics_list(info) ==
    IF has_option(info, "Comic Settings", "Extra comics")
    THEN str_to_list(info["Comic Settings"]["Extra comics"])
    ELSE <<>>

\* del info[section]
DelSection(info, section) == [s \in DOMAIN info \ {section} |-> info[s]]

\* info.read(file): the file's sections are added, its options set.
ReadInto(info, file) ==
    [s \in DOMAIN info \cup DOMAIN file |->
        IF s \notin DOMAIN file THEN info[s]
        ELSE IF s \notin DOMAIN info THEN file[s]
        ELSE file[s] @@ info[s]]

\* del info[section] raises KeyError when the section is missing.
CanDelete(file, info) ==
    /\ has_section(info, "Pages")
    /\ has_section(file, "Links Bar") => has_section(info, "Links Bar")

\* Lines 509-517 on the object `info`: the sections deleted, the file read.
Layered(file, info) ==
    LET a == DelSection(info, "Pages")
        b == IF has_section(file, "Links Bar") THEN DelSection(a, "Links Bar") ELSE a
    IN  ReadInto(b, file)

\* get_extra_comic_info, lines 507-518, on the parsed comic_info.ini of the
\* extra comic (no sections when the file is missing): what it returns, and
\* the caller's object afterwards.
get_extra_comic_info(file, info) ==
    IF ~CanDelete(file, info)
    THEN [error |-> "KeyError", returned |-> info, argument |-> info]
    ELSE [error |-> "none", returned |-> Layered(file, info), argument |-> info]

-----------------------------------------------------------------------------
\* Hooks (run_hook). A theme's hook is one of:
\*   "absent"  - no hooks.py, or no such function in it: run_hook returns None
\*   "none"    - the function returns None
\*   "empty"   - the function returns a dict with no keys
\*   "replace" - the function returns a new dict: the record and an extra key

HookKinds == {"absent", "none", "empty", "replace"}

run_hook(kind, record) ==
    CASE kind = "absent"  -> None
      [] kind = "none"    -> None
      [] kind = "empty"   -> Some(EmptyDict)
      [] kind = "replace" -> Some(Put(record, "hooked", TRUE))

-----------------------------------------------------------------------------
\* get_page_info_list

\* A sort by the text of the post date, not by the date parsed from it.
SortKeyByText(x) == <<TextRank(x["Post date"]), x["page_name"]>>

\* The sort key of line 264: (strptime(x["Post date"], date_format), x["page_name"]).
SortKey(x) == <<strptime(x["Post date"]), x["page_name"]>>

KeyLess(a, b) == a[1] < b[1] \/ (a[1] = b[1] /\ a[2] < b[2])

\* sorted(list, key=SortKey): insertion of each element, in list order, after
\* the elements whose key is not greater (the sort is stable).
RECURSIVE Insert(_, _)
Insert(x, s) ==
    IF s = <<>> THEN <<x>>
    ELSE IF KeyLess(SortKey(x), SortKey(Head(s))) THEN <<x>> \o s
    ELSE <<Head(s)>> \o Insert(x, Tail(s))

RECURSIVE sorted(_)
sorted(s) ==
    IF s = <<>> THEN <<>>
    ELSE Insert(s[Len(s)], sorted(SubSeq(s, 1, Len(s) - 1)))

\* A comparison that also schedules the pages dated at the local time.
IsScheduledInclusive(info, now, publish_all) ==
    strptime(info["Post date"]) >= now /\ ~publish_all

\* Lines 226-227: is the page scheduled?
IsScheduled(info, now, publish_all) ==
    strptime(info["Post date"]) > now /\ ~publish_all

\* Lines 234-250: the image file name of a page, or the error raised.
ResolveFilename(info, files, autodetect) ==
    IF NonEmptyStr(Get(info, "Filename", ""))
    THEN [error |-> "none", filename |-> info["Filename"]]
    ELSE IF ~autodetect
    THEN [error |-> "FileNotFoundError: filename must be provided", filename |-> ""]
    ELSE IF Cardinality(image_files(files)) # 1
    THEN [error |-> "FileNotFoundError: auto-detect found not one image", filename |-> ""]
    ELSE [error |-> "none",
          filename |-> CHOOSE f \in image_files(files) : TRUE]

\* Lines 250-254: the page's own record.
OwnPageInfo(name, info, filename) ==
    LET a == Put(info, "Filename", filename)
        b == Put(a, "page_name", name)
        c == Put(b, "Storyline", Get(b, "Storyline", ""))
        d == Put(c, "Characters", str_to_list(Get(c, "Characters", <<>>)))
    IN  Put(d, "Tags", str_to_list(Get(d, "Tags", <<>>)))

\* Lines 255-258: the record after the hook extra_page_info_processing.
AfterPageHook(own, hook_result) ==
    IF Truthy(hook_result) THEN hook_result.val ELSE own

\* shutil.rmtree(page_path)
rmtree(dirs, name) == [n \in DOMAIN dirs \ {name} |-> dirs[n]]

\* A scan that removes the directory of a scheduled page whatever the flag.
DirsAfterScheduledAlways(dirs, name, delete) == rmtree(dirs, name)

\* Lines 229-232: the directories after a scheduled page was met.
DirsAfterScheduled(dirs, name, delete) ==
    IF delete THEN rmtree(dirs, name) ELSE dirs

\* The site being built, by name: "main", or the name of the extra comic.
SiteName == IF comic_folder = <<>> THEN "main" ELSE comic_folder[1]

\* A stage of the build that has run to its end.
Event(stage) == <<SiteName, stage>>

\* One pass of the loop of lines 220-260, on a directory glob() returned.
ScanDir ==
    /\ scan_pc = "loop"
    /\ todo # {}
    /\ \E name \in todo :
        LET dir  == comic_dirs[name]
            info == dir.info
        IN  /\ todo' = todo \ {name}
            /\ visited' = (name :> dir) @@ visited
            /\ IF ~dir.has_info
               THEN \* lines 222-224: skipped
                    UNCHANGED <<comic_dirs, page_info_list, scheduled_post_count,
                                scan_pc, scan_error, page_hook_log>>
               ELSE IF IsScheduled(info, local_time, publish_all_comics)
               THEN \* lines 228-232
                    /\ scheduled_post_count' = scheduled_post_count + 1
                    /\ comic_dirs' =
                          DirsAfterScheduled(comic_dirs, name, delete_scheduled_posts)
                    /\ UNCHANGED <<page_info_list, scan_pc, scan_error, page_hook_log>>
               ELSE LET res == ResolveFilename(info, dir.files, auto_detect)
                    IN  IF res.error # "none"
                        THEN /\ scan_pc' = "error"
                             /\ scan_error' = res.error
                             /\ UNCHANGED <<comic_dirs, page_info_list,
                                            scheduled_post_count, page_hook_log>>
                        ELSE LET own  == OwnPageInfo(name, info, res.filename)
                                 hr   == run_hook(page_hook, own)
                                 used == AfterPageHook(own, hr)
                             IN  /\ page_info_list' = Append(page_info_list, used)
                                 /\ page_hook_log' =
                                       Append(page_hook_log,
                                              [own |-> own, result |-> hr, used |-> used])
                                 /\ UNCHANGED <<comic_dirs, scheduled_post_count,
                                                scan_pc, scan_error>>
    /\ UNCHANGED <<publish_all_comics, delete_scheduled_posts, auto_detect,
                   page_hook, local_time>>
    /\ UNCHANGED <<asm_vars, main_vars>>

\* Lines 262-266: the loop is over; sort and return.
\* A record without "Post date" or "page_name" (an empty record that a hook
\* put in the list) makes the key function raise KeyError.
ScanSort ==
    /\ scan_pc = "loop"
    /\ todo = {}
    /\ IF \A i \in DOMAIN page_info_list :
             {"Post date", "page_name"} \subseteq DOMAIN page_info_list[i]
       THEN /\ page_info_list' = sorted(page_info_list)
            /\ scan_pc' = "done"
            /\ trace' = Append(trace, Event("scan"))
            /\ UNCHANGED scan_error
       ELSE /\ scan_pc' = "error"
            /\ scan_error' = "KeyError"
            /\ UNCHANGED <<page_info_list, trace>>
    /\ UNCHANGED <<comic_dirs, publish_all_comics, delete_scheduled_posts, auto_detect,
                   page_hook, local_time, todo, scheduled_post_count, page_hook_log,
                   visited>>
    /\ UNCHANGED <<asm_vars, main_state>>

\* The size of a page's image file, where it does not matter.
DefaultImage == [w |-> 200, h |-> 100]

\* The inputs of a scan: each directory either lacks info.ini or holds one
\* with a post date; the image file name is given.
PageInfos ==
    {[k \in {"Post date", "Filename", "Title", "Alt text"} |->
        CASE k = "Post date" -> m
          [] k = "Filename"  -> <<"page", "png">>
          [] k = "Title"     -> "title"
          [] k = "Alt text"  -> <<"a", "<", "b">>] : m \in Range(MonthNames)}

PageDirs ==
    {[has_info |-> FALSE, info |-> EmptyDict, files |-> {}, image |-> DefaultImage]}
    \cup {[has_info |-> TRUE, info |-> i, files |-> {<<"page", "png">>},
           image |-> DefaultImage] : i \in PageInfos}

\* The assembly has not begun.
AsmIdle ==
    /\ comic_folder = <<>>
    /\ dict_hook = "absent"
    /\ comic_data_dicts = <<>>
    /\ asm_pc = "idle"
    /\ nav_ids = <<>>
    /\ dict_hook_log = <<>>

\* main() is not running: the function under study was called directly.
MainIdle ==
    /\ main_pc = "idle"
    /\ main_error = "none"
    /\ content = <<>>
    /\ thumbnails = <<>>
    /\ tag_index = <<>>
    /\ comic_info = <<>>
    /\ extra_files = <<>>
    /\ site_info = <<>>
    /\ extras_done = 0
    /\ extra_info_log = <<>>
    /\ global_values = <<>>
    /\ output = <<>>
    /\ trace = <<>>

ScanInit ==
    /\ AsmIdle
    /\ MainIdle
    /\ comic_dirs \in [1..MaxPages -> PageDirs]
    /\ publish_all_comics \in BOOLEAN
    /\ delete_scheduled_posts \in BOOLEAN
    /\ auto_detect = FALSE
    /\ page_hook \in HookKinds
    /\ local_time \in DOMAIN MonthNames
    /\ todo = DOMAIN comic_dirs
    /\ page_info_list = <<>>
    /\ scheduled_post_count = 0
    /\ scan_pc = "loop"
    /\ scan_error = "none"
    /\ page_hook_log = <<>>
    /\ visited = <<>>

ScanNext == ScanDir \/ ScanSort

SpecScan == ScanInit /\ [][ScanNext]_vars

-----------------------------------------------------------------------------
\* Properties of get_page_info_list.

\* The directories with an info.ini that the scan read.
WithInfo == {n \in DOMAIN visited : visited[n].has_info}

\* Those whose post date is later than the local time.
FutureDated ==
    {n \in WithInfo : strptime(visited[n].info["Post date"]) > local_time}

\* The page identifiers of the returned list.
Listed == {page_info_list[i]["page_name"] : i \in DOMAIN page_info_list}

\* C1. When get_page_info_list has returned: without publish-all, no page
\* whose post date is later than the local time is in the list, and the
\* scheduled count is the number of those pages; with publish-all, every page
\* that has an info.ini is in the list and the scheduled count is zero.
C1_Scheduling ==
    scan_pc = "done" =>
        IF publish_all_comics
        THEN /\ WithInfo \subseteq Listed
             /\ scheduled_post_count = 0
        ELSE /\ FutureDated \cap Listed = {}
             /\ scheduled_post_count = Cardinality(FutureDated)

\* A scan that returned, without publish-all, having met two future-dated
\* pages and one page that is published.
C1_Witness ==
    /\ scan_pc = "done"
    /\ ~publish_all_comics
    /\ Cardinality(FutureDated) = 2
    /\ Len(page_info_list) = 1

\* The record get_page_info_list builds for directory n when no hook changes it.
OwnRecordOf(n) ==
    OwnPageInfo(n, visited[n].info,
                ResolveFilename(visited[n].info, visited[n].files, auto_detect).filename)

\* The pages that are published: they have an info.ini and are not scheduled.
Published ==
    {n \in WithInfo : ~IsScheduled(visited[n].info, local_time, publish_all_comics)}

\* C2. With no per-page hook, the returned list holds exactly the records of
\* the published pages, each once, in strictly ascending order of (parsed post
\* date, page identifier), the identifier deciding between equal dates. Only
\* one sequence does, so the result is the same whatever the order in which
\* glob() yields the directories; and sorting it again leaves it unchanged.
C2_Ordering ==
    (scan_pc = "done" /\ page_hook = "absent") =>
        /\ Len(page_info_list) = Cardinality(Published)
        /\ Range(page_info_list) = {OwnRecordOf(n) : n \in Published}
        /\ \A i, j \in DOMAIN page_info_list :
              i < j =>
                LET a == page_info_list[i]
                    b == page_info_list[j]
                IN  \/ strptime(a["Post date"]) < strptime(b["Post date"])
                    \/ /\ strptime(a["Post date"]) = strptime(b["Post date"])
                       /\ a["page_name"] < b["page_name"]
        /\ sorted(page_info_list) = page_info_list

\* A returned list of three pages, two of them of the same post date and the
\* third of an earlier date whose text sorts after theirs.
C2_Witness ==
    /\ scan_pc = "done"
    /\ page_hook = "absent"
    /\ Len(page_info_list) = 3
    /\ page_info_list[1]["Post date"] = "January"
    /\ page_info_list[2]["Post date"] = "February"
    /\ page_info_list[3]["Post date"] = "February"

\* The directories the scan has read that are no longer there.
Removed == DOMAIN visited \ DOMAIN comic_dirs

\* C11. At every moment of a scan: a directory the scan has read is gone
\* exactly when it has an info.ini whose post date is later than the local
\* time, publish-all is not set and delete-scheduled is set. So nothing is
\* removed when delete-scheduled is unset or publish-all is set, and the
\* directory of a published page stays, as it was; a directory not read yet
\* is in place too.
C11_Removal ==
    /\ \A n \in DOMAIN visited :
          /\ n \in Removed <=>
                /\ n \in FutureDated
                /\ ~publish_all_comics
                /\ delete_scheduled_posts
          /\ n \notin Removed => comic_dirs[n] = visited[n]
    /\ todo \subseteq DOMAIN comic_dirs
    /\ Removed \cap Listed = {}

\* A scan with delete-scheduled that returned: two scheduled pages are gone,
\* the published one is listed and its directory is there.
C11_Witness ==
    /\ scan_pc = "done"
    /\ delete_scheduled_posts
    /\ Cardinality(Removed) = 2
    /\ Len(page_info_list) = 1
    /\ page_hook = "absent"
    /\ page_info_list[1]["page_name"] \in DOMAIN comic_dirs

-----------------------------------------------------------------------------
\* The image file name of a page (lines 234-250), on directories whose
\* info.ini gives a file name, gives an empty one or gives none.

MaxDetectDirs == 2

\* What os.listdir finds in a page directory: no image, one image, two images
\* (each beside thumbnail.jpg), or one image alone.
DetectFiles ==
    { {ThumbnailFile, <<"notes", "txt">>},
      {<<"page", "png">>, ThumbnailFile, <<"notes", "txt">>},
      {<<"page", "png">>, <<"other", "jpeg">>, ThumbnailFile},
      {<<"cover", "gif">>} }

\* info.ini with "Filename = page.png", with "Filename =" and without the key.
DetectInfos ==
    LET common(month) ==
            [k \in {"Post date", "Title", "Alt text"} |->
                CASE k = "Post date" -> month
                  [] k = "Title"     -> "title"
                  [] k = "Alt text"  -> <<"a">>]
    IN  UNION {{Put(common(month), "Filename", <<"page", "png">>),
                Put(common(month), "Filename", <<>>),
                common(month)} : month \in {"January", "March"}}

DetectDirs ==
    {[has_info |-> FALSE, info |-> EmptyDict, files |-> {<<"page", "png">>},
      image |-> DefaultImage]}
    \cup {[has_info |-> TRUE, info |-> i, files |-> f, image |-> DefaultImage] :
            i \in DetectInfos, f \in DetectFiles}

DetectInit ==
    /\ AsmIdle
    /\ MainIdle
    /\ comic_dirs \in [1..MaxDetectDirs -> DetectDirs]
    /\ publish_all_comics \in BOOLEAN
    /\ delete_scheduled_posts = FALSE
    /\ auto_detect \in BOOLEAN
    /\ page_hook = "absent"
    /\ local_time = 2
    /\ todo = DOMAIN comic_dirs
    /\ page_info_list = <<>>
    /\ scheduled_post_count = 0
    /\ scan_pc = "loop"
    /\ scan_error = "none"
    /\ page_hook_log = <<>>
    /\ visited = <<>>

SpecDetect == DetectInit /\ [][ScanNext]_vars

\* The info.ini of directory n gives an image file name.
GivesFilename(n) ==
    /\ "Filename" \in DOMAIN visited[n].info
    /\ visited[n].info["Filename"] # <<>>

\* The files of directory n with an image extension, thumbnail.jpg apart.
Candidates(n) ==
    {f \in visited[n].files : f[2] \in ImageExtensions} \ {ThumbnailFile}

\* The records of the list made for directory n.
RecordsFor(n) ==
    {i \in DOMAIN page_info_list : page_info_list[i]["page_name"] = n}

\* The scan stopped with this error and listed nothing for directory n.
AbortedAt(n, error) ==
    /\ scan_pc = "error"
    /\ scan_error = error
    /\ RecordsFor(n) = {}

\* Directory n is listed once, with this image file name.
ListedWith(n, filenames) ==
    /\ Cardinality(RecordsFor(n)) = 1
    /\ \A i \in RecordsFor(n) : page_info_list[i]["Filename"] \in filenames

\* The rule of file name resolution, for the directories of pages that were read.
ResolutionRule(pages) ==
    /\ \A n \in pages :
          IF GivesFilename(n)
          THEN n \in Published => ListedWith(n, {visited[n].info["Filename"]})
          ELSE IF ~auto_detect
          THEN AbortedAt(n, "FileNotFoundError: filename must be provided")
          ELSE IF Cardinality(Candidates(n)) = 1
          THEN ListedWith(n, Candidates(n))
          ELSE AbortedAt(n, "FileNotFoundError: auto-detect found not one image")
    /\ scan_pc = "error" =>
          \E n \in pages :
              /\ ~GivesFilename(n)
              /\ ~auto_detect \/ Cardinality(Candidates(n)) # 1

\* C12 as amended. For each page directory that the scan has read and whose
\* page is not scheduled: if its info.ini gives no image file name, then
\* without auto-detection the scan has aborted with the missing-filename
\* error; with auto-detection it has aborted with the auto-detection error
\* unless the directory holds exactly one file with an image extension other
\* than thumbnail.jpg, and then that file is the file name of the page's
\* record; if its info.ini gives a file name, the record has it as given,
\* whatever images the directory holds. The scan aborts for no other reason,
\* so a scheduled page without a file name does not stop it.
C12_Detection == ResolutionRule(Published)

\* A scan with auto-detection that returned after a page without file name,
\* whose directory holds page.png, thumbnail.jpg and a text file, and a page
\* with a given file name whose directory holds two images.
C12_Witness ==
    /\ scan_pc = "done"
    /\ auto_detect
    /\ \E n \in Published :
          /\ ~GivesFilename(n)
          /\ ThumbnailFile \in visited[n].files
          /\ ListedWith(n, {<<"page", "png">>})
    /\ \E n \in Published :
          /\ GivesFilename(n)
          /\ Cardinality(Candidates(n)) = 2
          /\ ListedWith(n, {<<"page", "png">>})

\* C12. For each page directory with an info.ini that the scan has read,
\* scheduled or not: if the info.ini gives no image file name, then without
\* auto-detection the scan has aborted with the missing-filename error; with
\* auto-detection it has aborted with the auto-detection error unless the
\* directory holds exactly one file with an image extension other than
\* thumbnail.jpg, which is then the page's file name; a given file name is
\* used as given.
C12_EveryPage == ResolutionRule(WithInfo)

-----------------------------------------------------------------------------
\* get_ids

\* comic_list[k], with k counted from 0 as Python does.
At(list, k) == list[k + 1]

\* What the code would return if it did not clamp the previous and the next
\* index: Python's comic_list[-1] is the last element, and an index past the
\* end wraps here to the first.
get_ids_wrapping(comic_list, index) ==
    [first_id    |-> At(comic_list, 0)["page_name"],
     previous_id |-> At(comic_list, (index - 1) % Len(comic_list))["page_name"],
     current_id  |-> At(comic_list, index)["page_name"],
     next_id     |-> At(comic_list, (index + 1) % Len(comic_list))["page_name"],
     last_id     |-> At(comic_list, Len(comic_list) - 1)["page_name"]]

get_ids(comic_list, index) ==
    [first_id    |-> At(comic_list, 0)["page_name"],
     previous_id |-> At(comic_list, Max(0, index - 1))["page_name"],
     current_id  |-> At(comic_list, index)["page_name"],
     next_id     |-> At(comic_list, Min(Len(comic_list) - 1, index + 1))["page_name"],
     last_id     |-> At(comic_list, Len(comic_list) - 1)["page_name"]]

-----------------------------------------------------------------------------
\* create_comic_data

\* "Content folder" of the site's settings (line 540), at its default.
CONTENT_DIR == "content"

\* The directory name of a page, as a path component.
DirName(page_name) == "page" \o ToString(page_name)

\* A file name <<stem, extension>> as a path component.
FileText(f) == f[1] \o "." \o f[2]

\* html.escape
EscapeChar(c) ==
    CASE c = "&"  -> "&amp;"
      [] c = "<"  -> "&lt;"
      [] c = ">"  -> "&gt;"
      [] c = "\"" -> "&quot;"
      [] c = "'"  -> "&#x27;"
      [] OTHER    -> c

html_escape(chars) == Join([i \in DOMAIN chars |-> EscapeChar(chars[i])])

\* time.strftime with the archive date format "%m": the month, two digits.
strftime(month) == "0" \o ToString(month)

\* The keys of page_info that create_comic_data reads with page_info[...];
\* a missing one raises KeyError. ("Storyline" is read only if present.)
KeysRead == {"page_name", "Post date", "Filename", "Alt text", "Title",
             "Characters", "Tags"}

\* Lines 316-351: the dict d of one page. No post text file exists and
\* transcripts are disabled, so post_html is the conversion of the empty text
\* and transcripts is the empty ordered dict.
ComicData(folder, page_info, ids) ==
    LET page_dir == <<CONTENT_DIR>> \o folder
                       \o <<"comics", DirName(page_info["page_name"])>>
    IN  [page_name         |-> page_info["page_name"],
         filename          |-> page_info["Filename"],
         comic_path        |-> page_dir \o <<FileText(page_info["Filename"])>>,
         thumbnail_path    |-> page_dir \o <<FileText(ThumbnailFile)>>,
         alt_text          |-> html_escape(page_info["Alt text"]),
         first_id          |-> ids.first_id,
         previous_id       |-> ids.previous_id,
         current_id        |-> ids.current_id,
         next_id           |-> ids.next_id,
         last_id           |-> ids.last_id,
         page_title        |-> page_info["Title"],
         post_date         |-> page_info["Post date"],
         archive_post_date |-> strftime(strptime(page_info["Post date"])),
         storyline         |-> IF "Storyline" \notin DOMAIN page_info
                               THEN <<>>
                               ELSE page_info["Storyline"],
         characters        |-> page_info["Characters"],
         tags              |-> page_info["Tags"],
         post_html         |-> "",
         transcripts       |-> <<>>]

\* A create_comic_data that reads the title and the alt text with
\* page_info.get(key, ""), as it reads the optional entries.
create_comic_data_lenient(folder, page_info, ids) ==
    LET filled == page_info @@ ("Title" :> "") @@ ("Alt text" :> <<>>)
    IN  IF ~(KeysRead \subseteq DOMAIN filled)
        THEN [error |-> "KeyError", d |-> EmptyDict]
        ELSE [error |-> "none", d |-> ComicData(folder, filled, ids)]

\* Lines 315-351: the record of one page, before the hook, or the KeyError
\* that page_info[key] raises.
create_comic_data(folder, page_info, ids) ==
    IF ~(KeysRead \subseteq DOMAIN page_info)
    THEN [error |-> "KeyError", d |-> EmptyDict]
    ELSE [error |-> "none", d |-> ComicData(folder, page_info, ids)]

\* Lines 352-355: the record after the hook extra_comic_dict_processing.
AfterDictHook(own, hook_result) ==
    IF Truthy(hook_result) THEN hook_result.val ELSE own

\* build_comic_data_dicts, one page of the list comprehension of lines
\* 361-364: get_ids, create_comic_data and its hook. The comprehension ends
\* after the last page.
AssemblePage ==
    /\ asm_pc = "loop"
    /\ scan_pc = "done"
    /\ LET i == Len(comic_data_dicts)
       IN  IF i = Len(page_info_list)
           THEN /\ asm_pc' = "done"
                /\ trace' = Append(trace, Event("assemble"))
                /\ UNCHANGED <<comic_data_dicts, nav_ids, dict_hook_log>>
           ELSE LET ids == get_ids(page_info_list, i)
                    res == create_comic_data(comic_folder, At(page_info_list, i), ids)
                    hr  == run_hook(dict_hook, res.d)
                    used == AfterDictHook(res.d, hr)
                IN  /\ nav_ids' = Append(nav_ids, ids)
                    /\ UNCHANGED trace
                    /\ IF res.error # "none"
                       THEN /\ asm_pc' = "error"
                            /\ UNCHANGED <<comic_data_dicts, dict_hook_log>>
                       ELSE /\ comic_data_dicts' = Append(comic_data_dicts, used)
                            /\ dict_hook_log' =
                                  Append(dict_hook_log,
                                         [own |-> res.d, result |-> hr, used |-> used])
                            /\ UNCHANGED asm_pc
    /\ UNCHANGED <<comic_folder, dict_hook>>
    /\ UNCHANGED <<scan_vars, main_state>>

\* The inputs of an assembly: the sorted list that a scan returns for some
\* page directories, each holding an info.ini with some post date.
RECURSIVE RecordsOf(_, _)
RecordsOf(dates, n) ==
    IF n = 0 THEN <<>>
    ELSE LET rest == RecordsOf(dates, n - 1)
         IN  IF dates[n] = "absent" THEN rest
             ELSE Append(rest,
                         OwnPageInfo(n,
                                     CHOOSE i \in PageInfos : i["Post date"] = dates[n],
                                     <<"page", "png">>))

SortedLists ==
    {sorted(RecordsOf(dates, MaxPages)) :
        dates \in [1..MaxPages -> Range(MonthNames) \cup {"absent"}]}

AssembleInit ==
    /\ MainIdle
    /\ comic_dirs = <<>>
    /\ publish_all_comics = FALSE
    /\ delete_scheduled_posts = FALSE
    /\ auto_detect = FALSE
    /\ page_hook = "absent"
    /\ local_time = Len(MonthNames)
    /\ todo = {}
    /\ page_info_list \in SortedLists
    /\ scheduled_post_count = 0
    /\ scan_pc = "done"
    /\ scan_error = "none"
    /\ page_hook_log = <<>>
    /\ visited = <<>>
    /\ comic_folder \in {<<>>, <<"extra">>}
    /\ dict_hook \in HookKinds
    /\ comic_data_dicts = <<>>
    /\ asm_pc = "loop"
    /\ nav_ids = <<>>
    /\ dict_hook_log = <<>>

AssembleNext == AssemblePage

SpecAssemble == AssembleInit /\ [][AssembleNext]_vars

\* C3. Each time get_ids is called on the sorted list, at the index i of a
\* page (counted from 1 here): first is the identifier of the first page, last
\* that of the last page, current that of page i, previous that of page i-1 or,
\* at the first page, of the first page itself, next that of page i+1 or, at
\* the last page, of the last page itself. So previous = first = current at
\* the first page, next = last = current at the last page, and all five are
\* the identifier of the only page of a list of one.
C3_Navigation ==
    \A i \in DOMAIN nav_ids :
        LET n   == Len(page_info_list)
            id(k) == page_info_list[k]["page_name"]
            ids == nav_ids[i]
        IN  /\ ids.first_id = id(1)
            /\ ids.last_id = id(n)
            /\ ids.current_id = id(i)
            /\ ids.previous_id = IF i = 1 THEN id(1) ELSE id(i - 1)
            /\ ids.next_id = IF i = n THEN id(n) ELSE id(i + 1)
            /\ (i = 1 => ids.previous_id = ids.first_id /\ ids.first_id = ids.current_id)
            /\ (i = n => ids.next_id = ids.last_id /\ ids.last_id = ids.current_id)
            /\ (n = 1 => {ids.first_id, ids.previous_id, ids.current_id,
                          ids.next_id, ids.last_id} = {id(1)})

\* Every page of a list of three has its ids, and the list is not in
\* identifier order.
C3_Witness ==
    /\ Len(page_info_list) = 3
    /\ Len(nav_ids) = 3
    /\ page_info_list[1]["page_name"] > page_info_list[2]["page_name"]
    /\ nav_ids[2].previous_id # nav_ids[2].next_id

-----------------------------------------------------------------------------
\* Python floats (IEEE 754 binary64) of the values resize computes: a float
\* is [m |-> its 53 significand bits, most significant first, e |-> the
\* binary exponent of the first bit]; 0.0 has no bits. Every operation rounds
\* to nearest, ties to even.

SignificandBits == 53

\* The bits are handled thirteen at a time where a carry runs through them.
LimbBits == 13

Zero == [m |-> <<>>, e |-> 0]

\* F(x), with x computed once whatever the number of places F uses it in.
Force(F(_), x) == CHOOSE r \in {F(v) : v \in {x}} : TRUE

RECURSIVE Pow2(_)
Pow2(k) == IF k = 0 THEN 1 ELSE 2 * Pow2(k - 1)

\* 2^k mod b
RECURSIVE Pow2Mod(_, _)
Pow2Mod(k, b) ==
    IF k = 0 THEN 1 % b
    ELSE IF k % 2 = 0
         THEN Force(LAMBDA h : (h * h) % b, Pow2Mod(k \div 2, b))
         ELSE (2 * Pow2Mod(k - 1, b)) % b

\* Long division of r by b (r < b): the k bits after the point of r / b, and
\* the remainder left after them. Bit i is the integer part of twice the
\* remainder left after bit i-1, which is r * 2^(i-1) mod b.
LongDiv(r, b, k) ==
    [bits |-> [i \in 1..k |-> (2 * ((r * Pow2Mod(i - 1, b)) % b)) \div b],
     rem  |-> (r * Pow2Mod(k, b)) % b]

\* The significand m plus one unit in the last place, at exponent e: a carry
\* out of the first bit makes it 1000... at exponent e + 1.
RoundUp(m, e) ==
    IF \A i \in DOMAIN m : m[i] = 1
    THEN [m |-> <<1>> \o [i \in 1..(Len(m) - 1) |-> 0], e |-> e + 1]
    ELSE [m |-> [i \in DOMAIN m |->
                    IF \E j \in (i + 1)..Len(m) : m[j] = 0 THEN m[i]
                    ELSE 1 - m[i]],
          e |-> e]

\* a and b scaled by powers of two until b <= a < 2b; e is the exponent of a / b.
RECURSIVE Normalise(_, _, _)
Normalise(a, b, e) ==
    IF a < b THEN Normalise(2 * a, b, e - 1)
    ELSE IF a >= 2 * b THEN Normalise(a, 2 * b, e + 1)
    ELSE [a |-> a, b |-> b, e |-> e]

\* The float of significand m and exponent e, rounded up when what was cut
\* off is above half a unit of the last place, or is half of it and m is odd.
Rounded(m, e, above, half) ==
    IF above \/ (half /\ m[Len(m)] = 1) THEN RoundUp(m, e) ELSE [m |-> m, e |-> e]

\* n.a / n.b for b <= a < 2b, at exponent n.e
DivNormalised(n) ==
    Force(LAMBDA q :
              Force(LAMBDA m : Rounded(m, n.e, 2 * q.rem > n.b, 2 * q.rem = n.b),
                    <<1>> \o q.bits),
          LongDiv(n.a - n.b, n.b, SignificandBits - 1))

\* a / b for ints a >= 0, b > 0 (true division, correctly rounded).
FloatDiv(a, b) ==
    IF a = 0 THEN Zero ELSE Force(DivNormalised, Normalise(a, b, 0))

\* The number whose binary digits are the first n of bits.
RECURSIVE BitsValueTo(_, _)
BitsValueTo(bits, n) ==
    IF n = 0 THEN 0 ELSE 2 * BitsValueTo(bits, n - 1) + bits[n]

BitsValue(bits) == Force(LAMBDA v : BitsValueTo(v, Len(v)), bits)

\* The binary digits of n, the first one a 1.
RECURSIVE BitsOf(_)
BitsOf(n) == IF n = 0 THEN <<>> ELSE Append(BitsOf(n \div 2), n % 2)

\* The last `width` binary digits of n.
LowBits(n, width) == [i \in 1..width |-> (n \div Pow2(width - i)) % 2]

\* The limbs from the k-th on times c, the last limb first to be multiplied,
\* and the carry out of the k-th limb.
RECURSIVE TimesLimbs(_, _, _)
TimesLimbs(limbs, c, k) ==
    IF k > Len(limbs) THEN [limbs |-> <<>>, carry |-> 0]
    ELSE Force(LAMBDA rest :
                   [limbs |-> <<(limbs[k] * c + rest.carry) % Pow2(LimbBits)>>
                              \o rest.limbs,
                    carry |-> (limbs[k] * c + rest.carry) \div Pow2(LimbBits)],
               TimesLimbs(limbs, c, k + 1))

\* The bits m in limbs of LimbBits bits, zeros put before the first.
LimbsOf(m) ==
    LET count == (Len(m) + LimbBits - 1) \div LimbBits
        pad   == count * LimbBits - Len(m)
    IN  [k \in 1..count |->
            BitsValue([i \in 1..LimbBits |->
                          IF (k - 1) * LimbBits + i <= pad THEN 0
                          ELSE m[(k - 1) * LimbBits + i - pad]])]

\* The digits without the zeros before the first 1.
WithoutLeadingZeros(digits) ==
    SubSeq(digits,
           CHOOSE i \in DOMAIN digits :
               digits[i] = 1 /\ \A j \in 1..(i - 1) : digits[j] = 0,
           Len(digits))

\* The binary digits of the product, from its limbs and the carry out of them.
DigitsOf(prod) ==
    Force(WithoutLeadingZeros,
          BitsOf(prod.carry)
          \o [i \in 1..(Len(prod.limbs) * LimbBits) |->
                LowBits(prod.limbs[((i - 1) \div LimbBits) + 1],
                        LimbBits)[((i - 1) % LimbBits) + 1]])

\* The binary digits of m * c, the first one a 1 (m starts with 1, c > 0).
TimesBits(m, c) ==
    Force(DigitsOf, Force(LAMBDA limbs : TimesLimbs(limbs, c, 1), LimbsOf(m)))

\* The product digits `full` of a float of exponent e and significand of
\* `len` bits, rounded to SignificandBits bits.
RoundProduct(full, e, len) ==
    LET keep == SubSeq(full, 1, SignificandBits)
        rest == SubSeq(full, SignificandBits + 1, Len(full))
    IN  IF rest # <<>> /\ rest[1] = 1
        THEN Rounded(keep, e + (Len(full) - len),
                     \E i \in 2..Len(rest) : rest[i] = 1,
                     \A i \in 2..Len(rest) : rest[i] = 0)
        ELSE [m |-> keep, e |-> e + (Len(full) - len)]

\* x * c for a float x and an int c >= 0.
FloatTimesInt(x, c) ==
    Force(LAMBDA v :
              IF v.m = <<>> \/ c = 0 THEN Zero
              ELSE Force(LAMBDA full : RoundProduct(full, v.e, Len(v.m)),
                         TimesBits(v.m, c)),
          x)

\* int(x) for a float x >= 0: the fraction is dropped.
FloatToInt(x) ==
    Force(LAMBDA v : IF v.m = <<>> \/ v.e < 0 THEN 0
                     ELSE BitsValue(SubSeq(v.m, 1, v.e + 1)),
          x)

-----------------------------------------------------------------------------
\* resize, lines 367-388. `size` is a text; the result is the size given to
\* im.resize, or the exception raised.

Digits == <<"0", "1", "2", "3", "4", "5", "6", "7", "8", "9">>

DigitValue(c) == (CHOOSE i \in DOMAIN Digits : Digits[i] = c) - 1

RECURSIVE DigitsValue(_)
DigitsValue(chars) ==
    IF chars = <<>> THEN 0
    ELSE 10 * DigitsValue(SubSeq(chars, 1, Len(chars) - 1))
         + DigitValue(chars[Len(chars)])

\* int(text) and float(text) of a text of decimal digits, blanks around it
\* allowed; -1 stands for the ValueError of any other text.
ParseNumber(chars) ==
    LET t == Strip(chars)
    IN  IF t # <<>> /\ \A i \in DOMAIN t : t[i] \in Range(Digits)
        THEN DigitsValue(t)
        ELSE -1

\* str.strip(c): the text without the c's at its ends.
RECURSIVE StripChar(_, _)
StripChar(chars, c) ==
    IF chars = <<>> THEN <<>>
    ELSE IF Head(chars) = c THEN StripChar(Tail(chars), c)
    ELSE IF chars[Len(chars)] = c THEN StripChar(SubSeq(chars, 1, Len(chars) - 1), c)
    ELSE chars

EndsWith(chars, c) == chars # <<>> /\ chars[Len(chars)] = c

ValueError == [error |-> "ValueError", w |-> 0, h |-> 0]

UnknownResize == [error |-> "ValueError: Unknown resize value", w |-> 0, h |-> 0]

Resized(w, h) == [error |-> "none", w |-> w, h |-> h]

\* A resize whose scaled side is computed in integers, (side * n) // other,
\* not in floats.
resize_exact(im_w, im_h, size) ==
    IF "," \in Range(size)
    THEN LET parts == SplitOn(Strip(size), {","}, <<>>)
         IN  IF Len(parts) # 2 \/ ParseNumber(parts[1]) < 0 \/ ParseNumber(parts[2]) < 0
             THEN ValueError
             ELSE Resized(ParseNumber(parts[1]), ParseNumber(parts[2]))
    ELSE IF EndsWith(size, "%")
    THEN LET p == ParseNumber(StripChar(Strip(size), "%"))
         IN  IF p < 0 THEN ValueError
             ELSE Resized((im_w * p) \div 100, (im_h * p) \div 100)
    ELSE IF EndsWith(size, "h")
    THEN LET h == ParseNumber(SubSeq(size, 1, Len(size) - 1))
         IN  IF h < 0 THEN ValueError
             ELSE Resized((im_w * h) \div im_h, h)
    ELSE IF EndsWith(size, "w")
    THEN LET w == ParseNumber(SubSeq(size, 1, Len(size) - 1))
         IN  IF w < 0 THEN ValueError
             ELSE Resized(w, (im_h * w) \div im_w)
    ELSE UnknownResize

resize(im_w, im_h, size) ==
    IF "," \in Range(size)
    THEN \* lines 369-372, and int(w), int(h) of line 388
         LET parts == SplitOn(Strip(size), {","}, <<>>)
         IN  IF Len(parts) # 2 \/ ParseNumber(parts[1]) < 0 \/ ParseNumber(parts[2]) < 0
             THEN ValueError
             ELSE Resized(ParseNumber(parts[1]), ParseNumber(parts[2]))
    ELSE IF EndsWith(size, "%")
    THEN \* lines 373-377
         LET p == ParseNumber(StripChar(Strip(size), "%"))
             scale == FloatDiv(p, 100)
         IN  IF p < 0 THEN ValueError
             ELSE Resized(FloatToInt(FloatTimesInt(scale, im_w)),
                          FloatToInt(FloatTimesInt(scale, im_h)))
    ELSE IF EndsWith(size, "h")
    THEN \* lines 378-381
         LET h == ParseNumber(SubSeq(size, 1, Len(size) - 1))
         IN  IF h < 0 THEN ValueError
             ELSE Resized(FloatToInt(FloatTimesInt(FloatDiv(im_w, im_h), h)), h)
    ELSE IF EndsWith(size, "w")
    THEN \* lines 382-385
         LET w == ParseNumber(SubSeq(size, 1, Len(size) - 1))
         IN  IF w < 0 THEN ValueError
             ELSE Resized(w, FloatToInt(FloatTimesInt(FloatDiv(im_h, im_w), w)))
    ELSE UnknownResize

-----------------------------------------------------------------------------
\* get_storylines, lines 428-443. An OrderedDict is the sequence of its
\* items, [key, value], in the order of the dict.

HasKey(items, key) == \E i \in DOMAIN items : items[i].key = key

\* od[key].append(value), the key added last when it is new.
AppendTo(items, key, value) ==
    IF HasKey(items, key)
    THEN [i \in DOMAIN items |->
            IF items[i].key = key
            THEN [key |-> key, value |-> Append(items[i].value, value)]
            ELSE items[i]]
    ELSE Append(items, [key |-> key, value |-> <<value>>])

\* od.move_to_end(key)
move_to_end(items, key) ==
    SelectSeq(items, LAMBDA it : it.key # key)
    \o SelectSeq(items, LAMBDA it : it.key = key)

\* Lines 432-440: the loop, on the records not yet seen.
RECURSIVE StorylineLoop(_, _, _)
StorylineLoop(dicts, show_uncategorized, items) ==
    IF dicts = <<>> THEN items
    ELSE LET comic_data == Head(dicts)
             storyline  == comic_data["storyline"]
         IN  IF ~NonEmptyStr(storyline) /\ ~show_uncategorized
             THEN StorylineLoop(Tail(dicts), show_uncategorized, items)
             ELSE StorylineLoop(Tail(dicts), show_uncategorized,
                                AppendTo(items,
                                         IF NonEmptyStr(storyline) THEN storyline
                                         ELSE "Uncategorized",
                                         comic_data))

\* The loop alone, without the move_to_end of lines 441-442.
get_storylines_unmoved(dicts, show_uncategorized) ==
    StorylineLoop(dicts, show_uncategorized, <<>>)

get_storylines(dicts, show_uncategorized) ==
    LET storylines_dict == StorylineLoop(dicts, show_uncategorized, <<>>)
    IN  IF HasKey(storylines_dict, "Uncategorized")
        THEN move_to_end(storylines_dict, "Uncategorized")
        ELSE storylines_dict

-----------------------------------------------------------------------------
\* write_tagged_pages, lines 489-504: the defaultdict `tags`, as the sequence
\* of its items.

RECURSIVE AppendAll(_, _, _)
AppendAll(items, labels, page) ==
    IF labels = <<>> THEN items
    ELSE AppendAll(AppendTo(items, Head(labels), page), Tail(labels), page)

\* Lines 493-497
RECURSIVE TagLoop(_, _)
TagLoop(dicts, items) ==
    IF dicts = <<>> THEN items
    ELSE LET page == Head(dicts)
             a == AppendAll(items, Get(page, "characters", <<>>), page)
             b == AppendAll(a, Get(page, "tags", <<>>), page)
         IN  TagLoop(Tail(dicts), b)

TagIndex(dicts) == TagLoop(dicts, <<>>)

\* The files write_tagged_pages writes (line 504): none for an empty list.
TaggedPaths(dicts) ==
    IF dicts = <<>> THEN {}
    ELSE {<<"tagged", it.key, "index.html">> : it \in Range(TagIndex(dicts))}

-----------------------------------------------------------------------------
\* RawConfigParser.getboolean; a text that is no Boolean raises ValueError,
\* which the settings of the model never do.
getboolean(text) == text \in {"1", "yes", "true", "on", "True", "Yes", "On"}

\* process_comic_images, lines 421-425, with process_comic_image, lines
\* 408-418: the pages in order, until one raises.
\*   dirs:   the page directories; thumbs: the sizes of the thumbnails saved.
RECURSIVE ProcessImages(_, _, _, _)
ProcessImages(dicts, info, dirs, thumbs) ==
    IF dicts = <<>> THEN [error |-> "none", dirs |-> dirs, thumbs |-> thumbs]
    ELSE LET comic_data == Head(dicts)
         IN  IF "comic_path" \notin DOMAIN comic_data
             THEN [error |-> "KeyError", dirs |-> dirs, thumbs |-> thumbs]
             ELSE LET path == comic_data["comic_path"]
                      page == CHOOSE n \in DOMAIN dirs : DirName(n) = path[Len(path) - 1]
                      dir  == dirs[page]
                  IN  IF ~\E f \in dir.files : FileText(f) = path[Len(path)]
                      THEN [error |-> "FileNotFoundError", dirs |-> dirs, thumbs |-> thumbs]
                      ELSE IF ~getboolean(info["Image Reprocessing"]["Overwrite existing images"])
                              /\ ThumbnailFile \in dir.files
                      THEN ProcessImages(Tail(dicts), info, dirs, thumbs)
                      ELSE LET r == resize(dir.image.w, dir.image.h,
                                           info["Image Reprocessing"]["Thumbnail size"])
                           IN  IF r.error # "none"
                               THEN [error |-> r.error, dirs |-> dirs, thumbs |-> thumbs]
                               ELSE ProcessImages(
                                       Tail(dicts), info,
                                       [dirs EXCEPT ![page].files = @ \cup {ThumbnailFile}],
                                       (Append(SubSeq(path, 1, Len(path) - 1),
                                               FileText(ThumbnailFile))
                                            :> [w |-> r.w, h |-> r.h]) @@ thumbs)

process_comic_images(dicts, info, dirs, thumbs) ==
    IF getboolean(info["Image Reprocessing"]["Create thumbnails"])
    THEN ProcessImages(dicts, info, dirs, thumbs)
    ELSE [error |-> "none", dirs |-> dirs, thumbs |-> thumbs]

-----------------------------------------------------------------------------
\* build_and_publish_comic_pages, lines 144-205, after build_comic_data_dicts.

\* utils.get_comic_url gives the URL of the comic.
COMIC_URL == "https://example.org/repo"

\* utils.write_to_template(template, path, data): the file at `path` is
\* written, by the site being built.
Written(tree, paths, template) ==
    [p \in paths |-> [site |-> SiteName, template |-> template]] @@ tree

\* save_page_info_json_file, lines 269-276
SaveJson ==
    /\ main_pc = "scan"
    /\ scan_pc = "done"
    /\ output' = Written(output, {comic_folder \o <<"comic", "page_info_list.json">>},
                         "json")
    /\ asm_pc' = "loop"
    /\ main_pc' = "assemble"
    /\ trace' = Append(trace, Event("json"))
    /\ UNCHANGED <<scan_vars, comic_folder, dict_hook, comic_data_dicts, nav_ids,
                   dict_hook_log, main_error, run_inputs, site_info, extras_done,
                   extra_info_log, global_values, thumbnails, tag_index>>

\* process_comic_images, line 161
Thumbnails ==
    /\ main_pc = "assemble"
    /\ asm_pc = "done"
    /\ LET r == process_comic_images(comic_data_dicts, site_info, comic_dirs, thumbnails)
       IN  /\ comic_dirs' = r.dirs
           /\ thumbnails' = r.thumbs
           /\ IF r.error = "none"
              THEN /\ main_pc' = "globals"
                   /\ trace' = Append(trace, Event("thumbnails"))
                   /\ UNCHANGED main_error
              ELSE /\ main_pc' = "aborted"
                   /\ main_error' = r.error
                   /\ UNCHANGED trace
    /\ UNCHANGED <<scan_rest, asm_vars, run_inputs, site_info, extras_done,
                   extra_info_log, global_values, tag_index, output>>

\* The options lines 176-189 read without a default.
RequiredOptions ==
    {<<"Comic Info", "Comic name">>, <<"Comic Info", "Author">>,
     <<"Comic Info", "Description">>,
     <<"Comic Settings", "Use images in navigation bar">>,
     <<"Archive", "Use thumbnails">>}

\* Lines 172-194: the dict global_values. There is no "home page.txt".
GlobalValuesOf(info, folder, dicts, count) ==
    [autogenerate_warning |-> "autogenerated",
     version              |-> "version",
     comic_title          |-> info["Comic Info"]["Comic name"],
     comic_author         |-> info["Comic Info"]["Author"],
     comic_description    |-> info["Comic Info"]["Description"],
     banner_image         |-> web_path(get_option(info, "Comic Settings", "Banner image",
                                          <<"/", CONTENT_DIR, "/", "images", "/",
                                            "banner.png">>)),
     theme                |-> get_option(info, "Comic Settings", "Theme", "default"),
     comic_url            |-> COMIC_URL,
     base_dir             |-> BASE_DIRECTORY,
     comic_base_dir       |-> <<BASE_DIRECTORY>> \o folder,
     content_base_dir     |-> <<BASE_DIRECTORY, CONTENT_DIR>> \o folder,
     links                |-> get_links_list(info),
     use_images_in_navigation_bar |->
         getboolean(info["Comic Settings"]["Use images in navigation bar"]),
     use_thumbnails       |-> getboolean(info["Archive"]["Use thumbnails"]),
     storylines           |->
         get_storylines(dicts,
                        IF has_option(info, "Archive", "Show Uncategorized comics")
                        THEN getboolean(info["Archive"]["Show Uncategorized comics"])
                        ELSE TRUE),
     home_page_text       |-> "",
     google_analytics_id  |-> get_option(info, "Google Analytics", "Tracking ID", ""),
     scheduled_post_count |-> count]

\* What a theme's extra_global_values may return.
ExtraGlobalValues ==
    {None, Some(EmptyDict), Some([comic_title |-> "Hooked", extra_value |-> "x"])}

\* Lines 172-202: global_values and the hook extra_global_values.
GlobalValues ==
    /\ main_pc = "globals"
    /\ IF /\ \A o \in RequiredOptions : has_option(site_info, o[1], o[2])
          /\ has_section(site_info, "Links Bar")
       THEN \E extra_global_variables \in ExtraGlobalValues :
              LET own == GlobalValuesOf(site_info, comic_folder, comic_data_dicts,
                                        scheduled_post_count)
              IN  /\ global_values' =
                        IF Truthy(extra_global_variables)
                        THEN Update(own, extra_global_variables.val)
                        ELSE own
                  /\ main_pc' = "comic_pages"
                  /\ trace' = Append(trace, Event("globals"))
                  /\ UNCHANGED main_error
       ELSE /\ main_pc' = "aborted"
            /\ main_error' = "NoSectionError or NoOptionError"
            /\ UNCHANGED <<global_values, trace>>
    /\ UNCHANGED <<scan_vars, asm_vars, run_inputs, site_info, extras_done,
                   extra_info_log, thumbnails, tag_index, output>>

\* write_html_files, lines 456-459: each record takes the global values and
\* is written with the template "comic".
RenderComicPages ==
    /\ main_pc = "comic_pages"
    /\ comic_data_dicts' =
          [i \in DOMAIN comic_data_dicts |-> Update(comic_data_dicts[i], global_values)]
    /\ output' = Written(output,
                         {comic_folder \o <<"comic", DirName(comic_data_dicts[i]["page_name"]),
                                            "index.html">> : i \in DOMAIN comic_data_dicts},
                         "comic")
    /\ main_pc' = "other_pages"
    /\ trace' = Append(trace, Event("comic_pages"))
    /\ UNCHANGED <<scan_vars, comic_folder, dict_hook, asm_pc, nav_ids, dict_hook_log,
                   main_error, run_inputs, site_info, extras_done, extra_info_log,
                   global_values, thumbnails, tag_index>>

\* write_other_pages, lines 472-480: the path of a page that is not
\* "tagged", or no path when the page is not built.
OtherPagePaths(folder, template_name, dicts) ==
    IF template_name = "latest" /\ dicts = <<>> THEN {}
    ELSE IF template_name \in {"index", "404"}
    THEN {folder \o <<template_name \o ".html">>}
    ELSE {folder \o <<template_name, "index.html">>}

\* write_other_pages, lines 464-486, with write_tagged_pages.
RenderOtherPages ==
    /\ main_pc = "other_pages"
    /\ LET names  == {page.template_name : page \in get_pages_list(site_info)}
           others == UNION {OtherPagePaths(comic_folder, n, comic_data_dicts) :
                               n \in names \ {"tagged"}}
           named  == [p \in others |->
                        [site |-> SiteName,
                         template |-> CHOOSE n \in names :
                                         p \in OtherPagePaths(comic_folder, n,
                                                              comic_data_dicts)]]
       IN  IF "tagged" \in names
           THEN /\ output' = Written(named @@ output, TaggedPaths(comic_data_dicts),
                                     "tagged")
                /\ tag_index' = IF comic_data_dicts = <<>> THEN tag_index
                                ELSE TagIndex(comic_data_dicts)
           ELSE /\ output' = named @@ output
                /\ UNCHANGED tag_index
    /\ main_pc' = "hook"
    /\ trace' = Append(trace, Event("other_pages"))
    /\ UNCHANGED <<scan_vars, asm_vars, main_error, run_inputs, site_info, extras_done,
                   extra_info_log, global_values, thumbnails>>

\* Line 556: RSS follows the main comic; line 564: the loop follows an extra.
AfterSiteAlwaysRss == "rss"

AfterSite == IF comic_folder = <<>> THEN "rss" ELSE "extras"

\* Line 461: the hook build_other_pages; build_and_publish_comic_pages returns.
BuildOtherPagesHook ==
    /\ main_pc = "hook"
    /\ main_pc' = AfterSite
    /\ trace' = Append(trace, Event("hook"))
    /\ UNCHANGED <<scan_vars, asm_vars, main_state_but_pc>>

-----------------------------------------------------------------------------
\* main, lines 531-577

\* build_rss_feed(comic_info, comic_data_dicts) writes the feed of the comic.
FeedFile == <<"feed.xml">>

\* delete_output_file_space, lines 43-61: is the file at path p removed?
Deleted(info, p) ==
    \/ p[1] = "comic"
    \/ p = FeedFile
    \/ \E page \in get_pages_list(info) :
          IF page.template_name \in {"index", "404"}
          THEN p = <<page.template_name \o ".html">>
          ELSE p[1] = page.template_name
    \/ p[1] \in Range(get_extra_comics_list(info))

\* Line 545: the hook preprocess
Preprocess ==
    /\ main_pc = "preprocess"
    /\ main_pc' = "clear"
    /\ trace' = Append(trace, <<"run", "preprocess">>)
    /\ UNCHANGED <<scan_vars, asm_vars, main_state_but_pc>>

\* Line 550: setup_output_file_space
ClearOutput ==
    /\ main_pc = "clear"
    /\ output' = [p \in {q \in DOMAIN output : ~Deleted(comic_info, q)} |-> output[p]]
    /\ main_pc' = "begin_site"
    /\ trace' = Append(trace, <<"run", "clear">>)
    /\ UNCHANGED <<scan_vars, asm_vars, main_error, run_inputs, site_info, extras_done,
                   extra_info_log, global_values, thumbnails, tag_index>>

\* build_and_publish_comic_pages is called (lines 555, 568) and calls
\* get_page_info_list, lines 208-219: glob() lists the site's directories.
BeginScan ==
    /\ main_pc = "begin_site"
    /\ comic_dirs' = content[SiteName]
    /\ todo' = DOMAIN content[SiteName]
    /\ page_info_list' = <<>>
    /\ scheduled_post_count' = 0
    /\ scan_pc' = "loop"
    /\ page_hook_log' = <<>>
    /\ visited' = <<>>
    /\ comic_data_dicts' = <<>>
    /\ asm_pc' = "idle"
    /\ nav_ids' = <<>>
    /\ dict_hook_log' = <<>>
    /\ global_values' = <<>>
    /\ tag_index' = <<>>
    /\ main_pc' = "scan"
    /\ UNCHANGED <<publish_all_comics, delete_scheduled_posts, auto_detect, page_hook,
                   local_time, scan_error, comic_folder, dict_hook, main_error,
                   run_inputs, site_info, extras_done, extra_info_log, thumbnails,
                   output, trace>>

\* Line 560: build_rss_feed
BuildRssFeed ==
    /\ main_pc = "rss"
    /\ output' = Written(output, {FeedFile}, "rss")
    /\ main_pc' = "extras"
    /\ trace' = Append(trace, Event("rss"))
    /\ UNCHANGED <<scan_vars, asm_vars, main_error, run_inputs, site_info, extras_done,
                   extra_info_log, global_values, thumbnails, tag_index>>

\* Lines 564-567: the loop takes up the next extra comic and derives its
\* settings; os.makedirs creates its directory.
NextExtra ==
    /\ main_pc = "extras"
    /\ extras_done < Len(get_extra_comics_list(comic_info))
    /\ LET extra_comic == get_extra_comics_list(comic_info)[extras_done + 1]
           r == get_extra_comic_info(extra_files[extra_comic], comic_info)
       IN  /\ extras_done' = extras_done + 1
           /\ extra_info_log' =
                 Append(extra_info_log,
                        [folder_name |-> extra_comic, before |-> comic_info,
                         error |-> r.error, returned |-> r.returned,
                         after |-> r.argument])
           /\ comic_info' = r.argument
           /\ IF r.error = "none"
              THEN /\ site_info' = r.returned
                   /\ comic_folder' = <<extra_comic>>
                   /\ main_pc' = "begin_site"
                   /\ UNCHANGED main_error
              ELSE /\ main_pc' = "aborted"
                   /\ main_error' = r.error
                   /\ UNCHANGED <<site_info, comic_folder>>
    /\ UNCHANGED <<scan_vars, dict_hook, comic_data_dicts, asm_pc, nav_ids,
                   dict_hook_log, content, extra_files, global_values, thumbnails,
                   tag_index, output, trace>>

\* Line 573: the loop is over; the hook postprocess
Postprocess ==
    /\ main_pc = "extras"
    /\ extras_done = Len(get_extra_comics_list(comic_info))
    /\ main_pc' = "done"
    /\ trace' = Append(trace, <<"run", "postprocess">>)
    /\ UNCHANGED <<scan_vars, asm_vars, main_state_but_pc>>

-----------------------------------------------------------------------------
\* The inputs of a run: settings, page directories, files left by the last run.

\* A comic_info.ini with the sections and options the build reads.
BaseInfo ==
    [s \in {"Comic Info", "Comic Settings", "Archive", "Image Reprocessing",
            "Transcripts", "Links Bar", "Pages"} |->
        CASE s = "Comic Info" ->
                 [o \in {"Comic name", "Author", "Description"} |-> o]
          [] s = "Comic Settings" ->
                 ("Date format" :> "%B") @@ ("Timezone" :> "UTC")
                 @@ ("Use images in navigation bar" :> "False")
          [] s = "Archive" ->
                 ("Date format" :> "%m") @@ ("Use thumbnails" :> "True")
          [] s = "Image Reprocessing" ->
                 ("Create thumbnails" :> "True")
                 @@ ("Overwrite existing images" :> "False")
                 @@ ("Thumbnail size" :> <<"4", "0", "h">>)
          [] s = "Transcripts" ->
                 ("Enable transcripts" :> "False") @@ ("Default language" :> "English")
          [] s = "Links Bar" ->
                 ("Home" :> <<"/">>) @@ ("Archive" :> <<"/", "archive">>)
          [] s = "Pages" ->
                 ("index" :> <<"H", "o", "m", "e">>) @@ ("tagged" :> <<"T", "a", "g">>)
                 @@ ("latest" :> <<>>)]

\* info[section][option] = value
SetOption(info, section, option, value) ==
    [info EXCEPT ![section] = (option :> value) @@ @]

\* The names of the extra comics: e1, e2, ...
ExtraName(i) == "e" \o ToString(i)

ExtraNames == {ExtraName(i) : i \in 1..MaxExtras}

\* The option "Extra comics" that lists the first k of them.
RECURSIVE ExtraComicsText(_)
ExtraComicsText(k) ==
    IF k = 0 THEN <<>>
    ELSE IF k = 1 THEN <<"e", ToString(1)>>
    ELSE ExtraComicsText(k - 1) \o <<",", " ", "e", ToString(k)>>

\* The settings of the main comic: with or without a section "Pages", and
\* with some extra comics.
MainInfos ==
    {SetOption(i, "Comic Settings", "Extra comics", ExtraComicsText(k)) :
        i \in {BaseInfo, DelSection(BaseInfo, "Pages")}, k \in 0..MaxExtras}

\* The comic_info.ini of an extra comic: none; one with pages of its own;
\* one with links, a name, a theme and a section of its own.
ExtraInfos ==
    {EmptyDict,
     "Pages" :> (("tagged" :> <<"T", "a", "g">>) @@ ("archive" :> <<>>)),
     ("Links Bar" :> ("Back" :> <<"/">>))
     @@ ("Comic Info" :> ("Comic name" :> "Extra"))
     @@ ("Comic Settings" :> ("Theme" :> "other"))
     @@ ("Google Analytics" :> ("Tracking ID" :> "id"))}

\* info.ini of a page: a post date and the optional entries.
InfoOf(month, meta) ==
    meta @@ (CHOOSE i \in PageInfos : i["Post date"] = month)

PageDir(info) ==
    [has_info |-> TRUE, info |-> info, files |-> {<<"page", "png">>},
     image |-> DefaultImage]

\* Storyline, tags and characters of a page, as info.ini has them.
PageMeta ==
    {EmptyDict,
     ("Storyline" :> "A") @@ ("Tags" :> <<"x", ",", " ", "y">>)
                          @@ ("Characters" :> <<"y">>),
     ("Storyline" :> "") @@ ("Tags" :> <<"x">>),
     ("Storyline" :> "B") @@ ("Characters" :> <<"z">>),
     ("Storyline" :> "Uncategorized") @@ ("Tags" :> <<"y">>)
                                      @@ ("Characters" :> <<"x">>),
     ("Storyline" :> "A") @@ ("Characters" :> <<"y", ";", "z">>)}

\* The page directories of a site: none; one page; a page and a page dated
\* after the run; a page whose info.ini has no title; a page and a later one
\* whose info.ini has no alt text.
SiteTrees ==
    {<<>>,
     <<PageDir(InfoOf("January", ("Storyline" :> "A")
                                 @@ ("Tags" :> <<"x", ",", " ", "y">>)
                                 @@ ("Characters" :> <<"y">>)))>>,
     <<PageDir(InfoOf("March", EmptyDict)),
       PageDir(InfoOf("February", "Tags" :> <<"x">>))>>,
     <<PageDir([k \in {"Post date", "Filename", "Alt text"} |->
                   InfoOf("January", EmptyDict)[k]])>>,
     <<PageDir(InfoOf("January", EmptyDict)),
       PageDir([k \in {"Post date", "Filename", "Title"} |->
                   InfoOf("February", EmptyDict)[k]])>>}

\* Files of an earlier build, at paths this build may use and at others.
StaleOutput ==
    [p \in {<<"comic", "page9", "index.html">>, <<"comic", "page_info_list.json">>,
            FeedFile, <<"index.html">>, <<"tagged", "x", "index.html">>,
            <<"e1", "comic", "page9", "index.html">>, <<"about", "index.html">>} |->
        [site |-> "earlier build", template |-> "any"]]

\* Before a scan: nothing is listed yet.
ScanIdle ==
    /\ comic_dirs = <<>>
    /\ todo = {}
    /\ page_info_list = <<>>
    /\ scheduled_post_count = 0
    /\ scan_pc = "idle"
    /\ scan_error = "none"
    /\ page_hook_log = <<>>
    /\ visited = <<>>

\* main() begins. The run is in February; no theme hook changes a record.
MainInit ==
    /\ ScanIdle
    /\ AsmIdle
    /\ publish_all_comics = FALSE
    /\ delete_scheduled_posts = FALSE
    /\ auto_detect = FALSE
    /\ page_hook = "absent"
    /\ local_time = 2
    /\ main_pc = "preprocess"
    /\ main_error = "none"
    /\ comic_info \in MainInfos
    /\ site_info = comic_info
    /\ extra_files \in [ExtraNames -> ExtraInfos]
    /\ content \in {[n \in {"main"} \cup ExtraNames |-> IF n = "main" THEN a ELSE b] :
                       a, b \in SiteTrees}
    /\ extras_done = 0
    /\ extra_info_log = <<>>
    /\ global_values = <<>>
    /\ thumbnails = <<>>
    /\ tag_index = <<>>
    /\ output = StaleOutput
    /\ trace = <<>>

MainNext ==
    \/ Preprocess
    \/ ClearOutput
    \/ BeginScan
    \/ ScanDir
    \/ ScanSort
    \/ SaveJson
    \/ AssemblePage
    \/ Thumbnails
    \/ GlobalValues
    \/ RenderComicPages
    \/ RenderOtherPages
    \/ BuildOtherPagesHook
    \/ BuildRssFeed
    \/ NextExtra
    \/ Postprocess

SpecMain == MainInit /\ [][MainNext]_vars

-----------------------------------------------------------------------------
\* One site, from the scan to the end of the assembly, under any theme hooks.

SiteInit ==
    /\ comic_dirs \in [1..MaxPages -> PageDirs]
    /\ publish_all_comics = FALSE
    /\ delete_scheduled_posts = FALSE
    /\ auto_detect = FALSE
    /\ page_hook \in HookKinds
    /\ local_time = Len(MonthNames)
    /\ todo = DOMAIN comic_dirs
    /\ page_info_list = <<>>
    /\ scheduled_post_count = 0
    /\ scan_pc = "loop"
    /\ scan_error = "none"
    /\ page_hook_log = <<>>
    /\ visited = <<>>
    /\ comic_folder = <<>>
    /\ dict_hook \in HookKinds
    /\ comic_data_dicts = <<>>
    /\ asm_pc = "idle"
    /\ nav_ids = <<>>
    /\ dict_hook_log = <<>>
    /\ main_pc = "scan"
    /\ main_error = "none"
    /\ content = "main" :> comic_dirs
    /\ comic_info = BaseInfo
    /\ site_info = BaseInfo
    /\ extra_files = <<>>
    /\ extras_done = 0
    /\ extra_info_log = <<>>
    /\ global_values = <<>>
    /\ thumbnails = <<>>
    /\ tag_index = <<>>
    /\ output = <<>>
    /\ trace = <<>>

SiteNext == ScanDir \/ ScanSort \/ SaveJson \/ AssemblePage

SpecSite == SiteInit /\ [][SiteNext]_vars

-----------------------------------------------------------------------------
\* One site after its assembly.

\* build_comic_data_dicts, lines 360-364, when no page raises and no hook
\* changes a record.
build_comic_data_dicts(folder, list) ==
    [i \in DOMAIN list |-> create_comic_data(folder, list[i], get_ids(list, i - 1)).d]

\* The record a scan without hook lists for page n of the directories.
ScannedRecord(dirs, n) == OwnPageInfo(n, dirs[n].info, <<"page", "png">>)

\* The scan and the assembly of the main comic have returned `list`.
Assembled(list, dirs, info) ==
    /\ comic_dirs = dirs
    /\ publish_all_comics = FALSE
    /\ delete_scheduled_posts = FALSE
    /\ auto_detect = FALSE
    /\ page_hook = "absent"
    /\ local_time = Len(MonthNames)
    /\ todo = {}
    /\ page_info_list = list
    /\ scheduled_post_count = 0
    /\ scan_pc = "done"
    /\ scan_error = "none"
    /\ page_hook_log = <<>>
    /\ visited = dirs
    /\ comic_folder = <<>>
    /\ dict_hook = "absent"
    /\ comic_data_dicts = build_comic_data_dicts(<<>>, list)
    /\ asm_pc = "done"
    /\ nav_ids = [i \in DOMAIN list |-> get_ids(list, i - 1)]
    /\ dict_hook_log = <<>>
    /\ main_error = "none"
    /\ content = "main" :> dirs
    /\ comic_info = info
    /\ site_info = info
    /\ extra_files = <<>>
    /\ extras_done = 0
    /\ extra_info_log = <<>>
    /\ global_values = <<>>
    /\ thumbnails = <<>>
    /\ tag_index = <<>>
    /\ output = <<>>
    /\ trace = <<>>

\* Up to MaxPages pages of one post date, each with some storyline, tags and
\* characters; uncategorized pages are shown, or not.
RenderInit ==
    /\ main_pc = "globals"
    /\ \E k \in 0..MaxPages :
       \E meta \in [1..k -> PageMeta] :
       \E info \in {BaseInfo,
                    SetOption(BaseInfo, "Archive", "Show Uncategorized comics", "False")} :
          LET dirs == [n \in 1..k |-> PageDir(InfoOf("January", meta[n]))]
          IN  Assembled(sorted([n \in 1..k |-> ScannedRecord(dirs, n)]), dirs, info)

RenderNext == GlobalValues \/ RenderComicPages \/ RenderOtherPages \/ BuildOtherPagesHook

SpecRender == RenderInit /\ [][RenderNext]_vars

-----------------------------------------------------------------------------
\* The thumbnail of one page, for images and thumbnail sizes of all forms.

ThumbnailSizes ==
    {<<"5", ",", " ", "7">>, <<"5", "0", "%">>, <<"1", "1", "6", "%">>,
     <<"1", "1", "h">>, <<"4", "0", "h">>, <<"1", "3", "w">>, <<"8", "0", "w">>,
     <<"5", ",", "7", "h">>, <<"b", "i", "g">>}

ImageSizes ==
    {DefaultImage} \cup {[w |-> w, h |-> h] : w, h \in MinSide..MaxSide}

ResizeInit ==
    /\ main_pc = "assemble"
    /\ \E size \in ThumbnailSizes, image \in ImageSizes :
          LET dirs == <<[PageDir(InfoOf("January", EmptyDict)) EXCEPT !.image = image]>>
          IN  Assembled(<<ScannedRecord(dirs, 1)>>, dirs,
                        SetOption(BaseInfo, "Image Reprocessing", "Thumbnail size", size))

ResizeNext == Thumbnails

SpecResize == ResizeInit /\ [][ResizeNext]_vars

-----------------------------------------------------------------------------
\* Properties of the tag index and of the storylines.

\* The labels of a record: those of its characters and those of its tags.
Labels(record) == Range(record["characters"]) \cup Range(record["tags"])

\* The places of `record` in the list `records`.
Places(records, record) == {k \in DOMAIN records : records[k] = record}

\* The position in comic_data_dicts of a record of a bucket.
IndexOf(record) ==
    CHOOSE i \in DOMAIN comic_data_dicts :
        comic_data_dicts[i]["page_name"] = record["page_name"]

\* The records of a bucket are records of the list, in the order of the list.
InListOrder(records) ==
    /\ \A k \in DOMAIN records : records[k] \in Range(comic_data_dicts)
    /\ \A j, k \in DOMAIN records :
          j < k => IndexOf(records[j]) <= IndexOf(records[k])

\* C4. When write_tagged_pages has built the tag index of a site: for every
\* record and every label in its character list or its tag list there is one
\* bucket of that label and the record is in it exactly once, also when the
\* label is both a character and a tag of the record; the records of a
\* bucket are in the order of the record list.
C4_TagIndex ==
    (main_pc = "hook" /\ tag_index # <<>>) =>
        /\ \A i \in DOMAIN comic_data_dicts :
           \A label \in Labels(comic_data_dicts[i]) :
              /\ Cardinality({b \in DOMAIN tag_index : tag_index[b].key = label}) = 1
              /\ \A b \in DOMAIN tag_index :
                    tag_index[b].key = label =>
                        Cardinality(Places(tag_index[b].value, comic_data_dicts[i])) = 1
        /\ \A b \in DOMAIN tag_index : InListOrder(tag_index[b].value)

\* The storylines computed for the site, and the setting they were computed under.
Storylines == global_values["storylines"]

ShowUncategorized ==
    IF has_option(site_info, "Archive", "Show Uncategorized comics")
    THEN getboolean(site_info["Archive"]["Show Uncategorized comics"])
    ELSE TRUE

\* The bucket a record belongs in.
BucketOf(record) ==
    IF NonEmptyStr(record["storyline"]) THEN record["storyline"] ELSE "Uncategorized"

\* The first record of the list that belongs in the bucket `key`.
FirstOf(key) ==
    CHOOSE i \in DOMAIN comic_data_dicts :
        /\ BucketOf(comic_data_dicts[i]) = key
        /\ \A j \in 1..(i - 1) : BucketOf(comic_data_dicts[j]) # key

\* C5. When get_storylines has returned for the assembled records: with
\* uncategorized display enabled every record is in exactly one bucket, once,
\* and that bucket is its storyline label, or "Uncategorized" when it has none;
\* the buckets are in the order in which their labels first appear in the
\* list, except that "Uncategorized", when present, is the last; each bucket
\* holds its records in list order. With uncategorized display disabled the
\* same holds of the records that have a storyline, a record without one is in
\* no bucket, and there is no "Uncategorized" bucket unless a record carries
\* that very label.
C5_Storylines ==
    main_pc = "comic_pages" =>
        /\ \A i \in DOMAIN comic_data_dicts :
              LET record == comic_data_dicts[i]
                  placed == NonEmptyStr(record["storyline"]) \/ ShowUncategorized
              IN  \A b \in DOMAIN Storylines :
                     Cardinality(Places(Storylines[b].value, record)) =
                        IF placed /\ Storylines[b].key = BucketOf(record) THEN 1 ELSE 0
        /\ \A i \in DOMAIN comic_data_dicts :
              (NonEmptyStr(comic_data_dicts[i]["storyline"]) \/ ShowUncategorized)
                  => HasKey(Storylines, BucketOf(comic_data_dicts[i]))
        /\ \A a, b \in DOMAIN Storylines :
              a < b =>
                /\ Storylines[a].key # Storylines[b].key
                /\ Storylines[a].key # "Uncategorized"
                /\ Storylines[b].key # "Uncategorized"
                      => FirstOf(Storylines[a].key) < FirstOf(Storylines[b].key)
        /\ \A b \in DOMAIN Storylines :
              /\ Storylines[b].value # <<>>
              /\ InListOrder(Storylines[b].value)
        /\ (~ShowUncategorized /\ HasKey(Storylines, "Uncategorized"))
              => \E i \in DOMAIN comic_data_dicts :
                    comic_data_dicts[i]["storyline"] = "Uncategorized"

\* Storylines "A", none, "B" in that order, shown: the buckets are "A", "B",
\* "Uncategorized".
C5_Witness ==
    /\ main_pc = "comic_pages"
    /\ ShowUncategorized
    /\ Len(comic_data_dicts) = 3
    /\ comic_data_dicts[1]["storyline"] = "A"
    /\ comic_data_dicts[2]["storyline"] = ""
    /\ comic_data_dicts[3]["storyline"] = "B"
    /\ [b \in DOMAIN Storylines |-> Storylines[b].key] = <<"A", "B", "Uncategorized">>
    /\ Len(Storylines[3].value) = 1

-----------------------------------------------------------------------------
\* Properties of the hooks, of resize, and of the run.

\* C6. For every call of extra_page_info_processing and of
\* extra_comic_dict_processing: when the hook returned a mapping, whatever
\* its keys, even none, the record used afterwards is the mapping returned;
\* when the hook is absent or returned nothing, the record used is the
\* pipeline's own.
C6_HookOverride ==
    \A log \in {page_hook_log, dict_hook_log} :
        \A i \in DOMAIN log :
            IF log[i].result.some
            THEN log[i].used = log[i].result.val
            ELSE log[i].used = log[i].own

\* The one page of the site, its image, and the thumbnail size asked for.
ThumbnailSize == site_info["Image Reprocessing"]["Thumbnail size"]

\* What process_comic_images did for the page: the size of the thumbnail it
\* saved, or the exception it raised and no thumbnail.
ThumbnailMade ==
    IF main_pc = "aborted"
    THEN [error |-> main_error, saved |-> DOMAIN thumbnails # {}, w |-> 0, h |-> 0]
    ELSE LET size == thumbnails[comic_data_dicts[1]["thumbnail_path"]]
         IN  [error |-> "none", saved |-> TRUE, w |-> size.w, h |-> size.h]

\* C7. The size resize gives the thumbnail of a srcW x srcH image: for
\* "W, H" it is (W, H); for "P%", (srcW*P/100, srcH*P/100); for "Nh",
\* (srcW*N/srcH, N); for "Nw", (N, srcH*N/srcW), each quotient truncated to
\* an integer; the forms are tried in this order. A text of none of the four
\* forms raises the unknown-resize error and no image is saved.
C7_Resize ==
    main_pc \in {"globals", "aborted"} =>
        LET image   == visited[1].image
            claimed == resize_exact(image.w, image.h, ThumbnailSize)
        IN  /\ ThumbnailMade.error = claimed.error
            /\ ThumbnailMade.saved = (claimed.error = "none")
            /\ ThumbnailMade.w = claimed.w
            /\ ThumbnailMade.h = claimed.h

\* The stages of one site, in the order of build_and_publish_comic_pages.
SiteStages(site) ==
    [i \in 1..8 |->
        <<site, <<"scan", "json", "assemble", "thumbnails", "globals", "comic_pages",
                  "other_pages", "hook">>[i]>>]

RECURSIVE ExtraStages(_)
ExtraStages(names) ==
    IF names = <<>> THEN <<>>
    ELSE SiteStages(Head(names)) \o ExtraStages(Tail(names))

\* The stages of a complete run, for the extra comics of the settings.
ExpectedTrace ==
    <<<<"run", "preprocess">>, <<"run", "clear">>>>
    \o SiteStages("main") \o <<<<"main", "rss">>>>
    \o ExtraStages(get_extra_comics_list(comic_info))
    \o <<<<"run", "postprocess">>>>

IsPrefix(a, b) == Len(a) <= Len(b) /\ SubSeq(b, 1, Len(a)) = a

\* C8. At every moment of a run of main, the stages that have run are the
\* first stages of this sequence, in its order, each once: preprocess, the
\* clearing of the output, the eight stages of the main comic (scan, page
\* list JSON, assembly, thumbnails, global values, comic pages, other pages,
\* build_other_pages hook), the RSS feed, then for each extra comic in
\* configured order its eight stages, then postprocess. A run that reaches
\* its end has run the whole sequence.
C8_StageOrder ==
    /\ IsPrefix(trace, ExpectedTrace)
    /\ main_pc = "done" => trace = ExpectedTrace

\* A run that reached its end with two extra comics, the last of which has pages.
C8_Witness ==
    /\ main_pc = "done"
    /\ Len(get_extra_comics_list(comic_info)) = 2
    /\ comic_folder = <<ExtraName(2)>>
    /\ comic_data_dicts # <<>>
    /\ Len(trace) = 28

\* C9. Every file in the output that an extra comic's build wrote lies
\* under the directory of that extra comic: none is at a path of the main
\* comic or of another extra comic.
C9_Containment ==
    \A p \in DOMAIN output :
        output[p].site \in ExtraNames => p[1] = output[p].site

\* C10. Every call of get_extra_comic_info returns settings and leaves the
\* main comic's settings as they were: the section "Pages" of what it returns
\* is that of the extra comic's file, and is missing when the file has none;
\* the section "Links Bar" is the file's when the file has one and the main
\* comic's otherwise; every other option has the file's value when the file
\* sets it and the main comic's value otherwise. The main comic's settings
\* being unchanged, each extra comic's settings derive from the same ones.
C10_Layering ==
    \A i \in DOMAIN extra_info_log :
        LET call == extra_info_log[i]
            main == call.before
            file == extra_files[call.folder_name]
            got  == call.returned
        IN  /\ call.error = "none"
            /\ call.after = main
            /\ main = extra_info_log[1].before
            /\ DOMAIN got = (DOMAIN main \ {"Pages"}) \cup DOMAIN file
            /\ "Pages" \in DOMAIN file => got["Pages"] = file["Pages"]
            /\ "Links Bar" \in DOMAIN got =>
                  got["Links Bar"] = IF "Links Bar" \in DOMAIN file
                                     THEN file["Links Bar"]
                                     ELSE main["Links Bar"]
            /\ \A section \in DOMAIN got \ {"Pages", "Links Bar"} :
                  /\ DOMAIN got[section] =
                        (IF section \in DOMAIN main THEN DOMAIN main[section] ELSE {})
                        \cup (IF section \in DOMAIN file THEN DOMAIN file[section] ELSE {})
                  /\ \A option \in DOMAIN got[section] :
                        got[section][option] =
                            IF has_option(file, section, option)
                            THEN file[section][option]
                            ELSE main[section][option]

-----------------------------------------------------------------------------
\* A page without title or alt text (create_comic_data, lines 337 and 343).

\* The sites the settings name: the main comic and its extra comics.
ConfiguredSites == {"main"} \cup Range(get_extra_comics_list(comic_info))

\* The comic folder of a site, as build_and_publish_comic_pages gets it.
FolderOf(site) == IF site = "main" THEN <<>> ELSE <<site>>

\* The pages of a site that are published in this run.
PublishedIn(site) ==
    {n \in DOMAIN content[site] :
        /\ content[site][n].has_info
        /\ ~IsScheduled(content[site][n].info, local_time, publish_all_comics)}

\* Some published page of the site has an info.ini without "Title" or
\* without "Alt text".
LacksRequired(site) ==
    \E n \in PublishedIn(site) :
        ~({"Title", "Alt text"} \subseteq DOMAIN content[site][n].info)

\* The sites whose build has run to its end.
BuiltSites == {site \in ConfiguredSites : <<site, "hook">> \in Range(trace)}

\* The page list JSON of a site.
JsonFile(site) == FolderOf(site) \o <<"comic", "page_info_list.json">>

\* The build of the site has left these files: a document for each published
\* page, and the feed after the main comic.
OutputKept(site) ==
    /\ \A n \in PublishedIn(site) :
          LET p == FolderOf(site) \o <<"comic", DirName(n), "index.html">>
          IN  p \in DOMAIN output /\ output[p] = [site |-> site, template |-> "comic"]
    /\ JsonFile(site) \in DOMAIN output
    /\ output[JsonFile(site)] = [site |-> site, template |-> "json"]
    /\ site = "main" =>
          FeedFile \in DOMAIN output /\ output[FeedFile].template = "rss"

\* What holds of a site one of whose published pages lacks title or alt text.
NeverBuilt(site) ==
    /\ \A i \in DOMAIN trace :
          trace[i][1] = site =>
              /\ trace[i][2] \in {"scan", "json"}
              /\ \A j \in DOMAIN trace : j > i => trace[j][1] = site
    /\ \A p \in DOMAIN thumbnails :
          ~IsPrefix(<<CONTENT_DIR>> \o FolderOf(site) \o <<"comics">>, p)
    /\ \A p \in DOMAIN output :
          output[p].site = site => p = JsonFile(site)
    /\ site \in ConfiguredSites =>
          /\ main_pc # "done"
          /\ <<"run", "postprocess">> \notin Range(trace)

\* The state of a run whose assembly has raised.
AbortedInAssembly ==
    /\ LacksRequired(SiteName)
    /\ main_pc = "assemble"
    /\ trace[Len(trace)] = <<SiteName, "json">>
    /\ \A site \in BuiltSites : OutputKept(site)
    /\ JsonFile(SiteName) \in DOMAIN output
    /\ output[JsonFile(SiteName)] = [site |-> SiteName, template |-> "json"]

\* C13. With no theme hook changing the records: of a site one of whose
\* published pages has an info.ini without title or without alt text, no
\* stage after the page list JSON ever runs: no thumbnail of it is made, no
\* file but that JSON is written for it, no later site is begun, and the run
\* does not reach the postprocess hook. Its assembly raises and does not
\* complete; the run then stands still: the output of the sites built before
\* and this site's page list JSON are in place, and no step follows.
C13_MissingField ==
    /\ [](/\ \A site \in {"main"} \cup ExtraNames :
                LacksRequired(site) => NeverBuilt(site)
          /\ asm_pc = "error" => AbortedInAssembly)
    /\ [][asm_pc # "error"]_vars

\* The assembly of the first extra comic has raised at its second page, which
\* has no alt text, after its first page was assembled; the main comic had
\* been built, with a page and the feed.
C13_Witness ==
    /\ asm_pc = "error"
    /\ comic_folder = <<ExtraName(1)>>
    /\ Len(comic_data_dicts) = 1
    /\ Len(nav_ids) = 2
    /\ "Alt text" \notin DOMAIN page_info_list[2]
    /\ "main" \in BuiltSites
    /\ PublishedIn("main") # {}
    /\ <<"comic", DirName(1), "index.html">> \in DOMAIN output
    /\ JsonFile(ExtraName(1)) \in DOMAIN output

-----------------------------------------------------------------------------
\* The records after the assembly (write_html_files, line 458).

\* The records as build_comic_data_dicts returned them: for each page, what
\* create_comic_data returned after its hook.
AsAssembled == [i \in DOMAIN dict_hook_log |-> dict_hook_log[i].used]

\* C14. From the end of a site's assembly on, through thumbnails, global
\* values, comic pages, other pages and tag pages, the list of records is
\* the list as assembled, key for key and value for value; so it is when the
\* build_other_pages hook and, after the main comic, build_rss_feed get it.
C14_RecordsFrozen ==
    asm_pc = "done" => comic_data_dicts = AsAssembled

====
